---- MODULE Spec2Model ----
(***************************************************************************)
(* A model of the channel-relay bot: src/bot.py (ChannelBot) over          *)
(* src/database.py (Database).                                             *)
(*                                                                         *)
(* Scheduling.  The Application handles updates one at a time (it is built *)
(* without concurrent updates, bot.py:664), so a command or a channel post *)
(* starts only when the previous handler has returned.  An `await` inside  *)
(* a handler lets the tasks made by create_task (bot.py:373) and the jobs  *)
(* of the job queue (bot.py:687-698) run, so a handler is a sequence of    *)
(* atomic blocks, one action per block between two awaits.                 *)
(***************************************************************************)
EXTENDS Integers, Sequences, FiniteSets, Bags, TLC

\* ------------------------------------------------------------- bounds

\* Source message ids are 1..MaxMsgId in every chat.
MaxMsgId == 2

\* The platform's chats, by their integer chat id.
Chats == {1, 2, 3}

MsgIds == 1..MaxMsgId

\* The updates (commands and channel posts) a run with albums handles; a run
\* without albums handles one more.
MaxEvents == 2

\* The delayed_processing tasks alive at a time.
MaxTasks == 2

\* The users that ask to join a channel.
MaxUsers == 2

\* The requests the platform returns in one page of get_chat_join_requests.
PageLimit == 1

\* approve_requests edits its status message before every ProgressEvery-th
\* request (every tenth in the code).
ProgressEvery == 2

\* ------------------------------------------------------------- state

VARIABLES
    channels,          \* db.channels: the documents, in collection order
    posted_messages,   \* db.posted_messages: a bag of {message_id, channel_id}
    message_mappings,  \* db.message_mappings: the documents, in collection order
    fwd,               \* the update handler forward_single_message, its locals
    outbox,            \* the platform: copies delivered, a bag of {to, from_chat, message_id}
    last,              \* the last command handled: what it was and how it ended
    budget,            \* the updates the run can still handle
    media_groups,      \* self.media_groups: media_group_id -> list of messages
    processing_groups, \* self.processing_groups: its keys (every value is True)
    tasks,             \* the delayed_processing tasks made by create_task
    albums,            \* the platform: the album sends delivered, a bag
    deletion,          \* the handling of a deletion on the source, its locals
    platform,          \* the platform: per chat the next message id and the copies it holds
    approval,          \* the command handler approve_requests, its locals
    join_requests      \* the platform: per chat the users whose join request is pending

groupVars == <<media_groups, processing_groups, tasks, albums>>

deleteVars == <<deletion, platform>>

approveVars == <<approval, join_requests>>

vars == <<channels, posted_messages, message_mappings, fwd, outbox, last, budget,
          media_groups, processing_groups, tasks, albums, deletion, platform,
          approval, join_requests>>

\* ------------------------------------------------------- conversions

\* str(update.channel_post.chat.id): the decimal string of an integer chat id.
str(chat_id) == ToString(chat_id)

\* The channel ids an administrator can name in a command: context.args[0].
ChannelArgs == {str(c) : c \in Chats}

\* bot.get_chat(channel_id): the chat a command argument names.
get_chat(channel_id) == CHOOSE c \in Chats : str(c) = channel_id

\* ---------------------------------------------------- database.py

\* find_one's "no document".
None == [channel_id |-> "", type |-> "", is_active |-> FALSE]

\* The document add_channel writes (title and added_at are advisory).
channel_data(channel_id, channel_type) ==
    [channel_id |-> channel_id, type |-> channel_type, is_active |-> TRUE]

\* The positions of the documents with this channel_id.
IndexOf(chs, channel_id) == {i \in 1..Len(chs) : chs[i].channel_id = channel_id}

\* A plausible slip: the upsert always inserts a new document.
db_add_channel_insert(chs, channel_id, channel_type) ==
    Append(chs, channel_data(channel_id, channel_type))

\* Database.add_channel: update_one({"channel_id"}, {"$set": data}, upsert=True).
db_add_channel(chs, channel_id, channel_type) ==
    IF IndexOf(chs, channel_id) = {}
    THEN Append(chs, channel_data(channel_id, channel_type))
    ELSE LET i == CHOOSE j \in IndexOf(chs, channel_id) :
                      \A k \in IndexOf(chs, channel_id) : j <= k
         IN  [chs EXCEPT ![i] = channel_data(channel_id, channel_type)]

\* find_one over a sequence of documents: the first match, or None.
find_one(docs) == IF docs = <<>> THEN None ELSE Head(docs)

IsMain(doc) == doc.type = "main" /\ doc.is_active
IsPost(doc) == doc.type = "post" /\ doc.is_active

\* Database.get_main_channel
db_get_main_channel(chs) == find_one(SelectSeq(chs, IsMain))

\* Database.get_post_channels
db_get_post_channels(chs) == SelectSeq(chs, IsPost)

\* Database.get_channel_by_id
db_get_channel_by_id(chs, channel_id) ==
    LET Same(doc) == doc.channel_id = channel_id
    IN  find_one(SelectSeq(chs, Same))

\* A plausible slip: the document is marked inactive instead of deleted.
db_remove_channel_soft(chs, channel_id) ==
    [i \in 1..Len(chs) |-> IF chs[i].channel_id = channel_id
                            THEN [chs[i] EXCEPT !.is_active = FALSE] ELSE chs[i]]

\* Database.remove_channel: delete_one removes the first match.
db_remove_channel(chs, channel_id) ==
    IF IndexOf(chs, channel_id) = {}
    THEN chs
    ELSE LET i == CHOOSE j \in IndexOf(chs, channel_id) :
                      \A k \in IndexOf(chs, channel_id) : j <= k
         IN  SubSeq(chs, 1, i - 1) \o SubSeq(chs, i + 1, Len(chs))

\* channels.update_one({"channel_id": id}, {"$set": {"type": "post"}}): bot.py:140
db_set_type_post(chs, channel_id) ==
    IF IndexOf(chs, channel_id) = {}
    THEN chs
    ELSE LET i == CHOOSE j \in IndexOf(chs, channel_id) :
                      \A k \in IndexOf(chs, channel_id) : j <= k
         IN  [chs EXCEPT ![i].type = "post"]

\* A document of posted_messages (posted_at is never read by the bot).
posted_doc(message_id, channel_id) ==
    [message_id |-> message_id, channel_id |-> channel_id]

\* Database.is_message_posted
db_is_message_posted(posted, message_id, channel_id) ==
    BagIn(posted_doc(message_id, channel_id), posted)

\* Database.mark_message_posted: insert_one
db_mark_message_posted(posted, message_id, channel_id) ==
    posted (+) SetToBag({posted_doc(message_id, channel_id)})

\* ---------------------------------------------------- registry commands

\* Each command and each channel post takes one of the run's updates.
Counted == budget > 0 /\ budget' = budget - 1

\* How a command that names a channel can end: at the authorization check, at
\* the argument check, by an exception of get_chat or get_member, with the bot
\* no administrator, with the bot an administrator that cannot invite users (the
\* warning of /add delivered, or its reply raising), or with all rights.
Outcomes == {"unauthorized", "no_args", "lookup_failed", "not_admin",
             "admin_no_invite", "warning_failed", "admin"}

\* A plausible slip: the previous main channel is not demoted.
set_main_registry_no_demote(chs, channel_id) ==
    db_add_channel(chs, channel_id, "main")

\* A plausible slip: the previous main channel is deleted instead of demoted.
set_main_registry_drops_old(chs, channel_id) ==
    LET existing_main == db_get_main_channel(chs)
        dropped == IF existing_main # None
                   THEN db_remove_channel(chs, existing_main.channel_id)
                   ELSE chs
    IN  db_add_channel(dropped, channel_id, "main")

\* set_main_channel's database block, bot.py:138-145.
set_main_registry(chs, channel_id) ==
    LET existing_main == db_get_main_channel(chs)
        demoted == IF existing_main # None
                   THEN db_set_type_post(chs, existing_main.channel_id)
                   ELSE chs
    IN  db_add_channel(demoted, channel_id, "main")

\* ChannelBot.add_channel (/add)
add_channel(channel_id, outcome) ==
    /\ fwd.pc = "idle"
    /\ Counted
    /\ channels' = IF outcome \in {"admin", "admin_no_invite"}
                   THEN db_add_channel(channels, channel_id, "post")
                   ELSE channels
    /\ UNCHANGED <<posted_messages, message_mappings, fwd, outbox>>
    /\ UNCHANGED groupVars
    /\ UNCHANGED deleteVars
    /\ UNCHANGED approveVars

\* A plausible slip: the previous main channel is demoted before the bot's
\* membership in the new one is looked at.
set_main_channel_demotes_first(channel_id, outcome) ==
    /\ fwd.pc = "idle"
    /\ Counted
    /\ outcome # "warning_failed"
    /\ channels' = IF outcome \in {"admin", "admin_no_invite"}
                   THEN set_main_registry(channels, channel_id)
                   ELSE IF outcome = "not_admin" /\ db_get_main_channel(channels) # None
                        THEN db_set_type_post(channels, db_get_main_channel(channels).channel_id)
                        ELSE channels
    /\ UNCHANGED <<posted_messages, message_mappings, fwd, outbox>>
    /\ UNCHANGED groupVars
    /\ UNCHANGED deleteVars
    /\ UNCHANGED approveVars

\* ChannelBot.set_main_channel (/main)
set_main_channel(channel_id, outcome) ==
    /\ fwd.pc = "idle"
    /\ Counted
    /\ outcome # "warning_failed"
    /\ channels' = IF outcome \in {"admin", "admin_no_invite"}
                   THEN set_main_registry(channels, channel_id)
                   ELSE channels
    /\ UNCHANGED <<posted_messages, message_mappings, fwd, outbox>>
    /\ UNCHANGED groupVars
    /\ UNCHANGED deleteVars
    /\ UNCHANGED approveVars

\* ChannelBot.remove_channel (/remove)
remove_channel(channel_id, outcome) ==
    /\ fwd.pc = "idle"
    /\ Counted
    /\ outcome \in {"unauthorized", "no_args", "admin"}
    /\ LET channel == db_get_channel_by_id(channels, channel_id)
       IN  channels' = IF outcome = "admin" /\ channel # None
                       THEN db_remove_channel(channels, channel_id)
                       ELSE channels
    /\ UNCHANGED <<posted_messages, message_mappings, fwd, outbox>>
    /\ UNCHANGED groupVars
    /\ UNCHANGED deleteVars
    /\ UNCHANGED approveVars

\* What an observer notes of a command: which, on what, how it ended, and the
\* main channel it found.
Noted(cmd, channel_id, outcome) ==
    [cmd |-> cmd, channel_id |-> channel_id, outcome |-> outcome,
     main_before |-> db_get_main_channel(channels).channel_id,
     known_before |-> db_get_channel_by_id(channels, channel_id) # None]

\* The commands, each noted in `last`.
Command ==
    \E channel_id \in ChannelArgs, outcome \in Outcomes :
        \/ add_channel(channel_id, outcome) /\ last' = Noted("add", channel_id, outcome)
        \/ set_main_channel(channel_id, outcome) /\ last' = Noted("main", channel_id, outcome)
        \/ remove_channel(channel_id, outcome) /\ last' = Noted("remove", channel_id, outcome)

\* The commands, unobserved.
Registry ==
    \E channel_id \in ChannelArgs, outcome \in Outcomes :
        \/ add_channel(channel_id, outcome) /\ UNCHANGED last
        \/ set_main_channel(channel_id, outcome) /\ UNCHANGED last
        \/ remove_channel(channel_id, outcome) /\ UNCHANGED last

\* ------------------------------------------------ singleton relay

NoMessage == [chat |-> 0, message_id |-> 0]

\* No post is being handled.
Idle == [pc |-> "idle", message |-> NoMessage, post_channels |-> <<>>,
         i |-> 0, attempted |-> {}, failed |-> {}, skipped |-> {}]

\* The singleton posts the platform can deliver: update.channel_post with no
\* media_group_id.
SinglePosts == [chat : Chats, message_id : MsgIds]

\* A delivered copy, as the platform holds it.
copy_doc(to, message) ==
    [to |-> to, from_chat |-> message.chat, message_id |-> message.message_id]

\* A plausible slip: the loop never consults the ledger.
NextChannel_no_check(posted, message_id, post_channels, from) ==
    IF from <= Len(post_channels) THEN from ELSE Len(post_channels) + 1

\* forward_single_message, bot.py:309-312: the first channel from position
\* `from` on that is_message_posted does not skip, Len + 1 when the loop ends.
NextChannel(posted, message_id, post_channels, from) ==
    LET open == {j \in from..Len(post_channels) :
                    ~db_is_message_posted(posted, message_id,
                                          post_channels[j].channel_id)}
    IN  IF open = {} THEN Len(post_channels) + 1
        ELSE CHOOSE j \in open : \A k \in open : j <= k

\* The channel ids the loop passes over between two positions.
Passed(post_channels, from, to) ==
    {post_channels[j].channel_id : j \in from..(to - 1)}

\* The handler's locals as the loop moves on to the next channel it will send to.
Advance(f, posted, from) ==
    LET j == NextChannel(posted, f.message.message_id, f.post_channels, from)
    IN  [f EXCEPT !.pc = IF j > Len(f.post_channels) THEN "done" ELSE "send",
                  !.i = j,
                  !.skipped = @ \cup Passed(f.post_channels, from, j)]

\* A plausible slip: the message is marked posted whether or not the send succeeded.
SendFailed_marks(posted, message_id, channel_id) ==
    db_mark_message_posted(posted, message_id, channel_id)

\* The ledger after a failed send, bot.py:324-325: the except branch only logs.
SendFailed(posted, message_id, channel_id) == posted

\* A plausible slip: the origin of the post is not compared with the main channel.
Accepted_any_origin(chs, chat) ==
    /\ db_get_main_channel(chs) # None
    /\ db_get_post_channels(chs) # <<>>

\* forward_from_main_channel, bot.py:332-344: whether the post is relayed at all.
Accepted(chs, chat) ==
    /\ db_get_main_channel(chs) # None
    /\ str(chat) = db_get_main_channel(chs).channel_id
    /\ db_get_post_channels(chs) # <<>>

\* forward_from_main_channel for a post without media_group_id, up to the first
\* await of forward_single_message.
forward_single_begin(message) ==
    /\ fwd.pc = "idle"
    /\ Counted
    /\ LET post_channels == IF Accepted(channels, message.chat)
                            THEN db_get_post_channels(channels) ELSE <<>>
           f == [pc |-> "done", message |-> message,
                 post_channels |-> post_channels, i |-> 1,
                 attempted |-> {}, failed |-> {}, skipped |-> {}]
       IN  fwd' = Advance(f, posted_messages, 1)
    /\ UNCHANGED <<channels, posted_messages, message_mappings, outbox>>
    /\ UNCHANGED groupVars
    /\ UNCHANGED deleteVars
    /\ UNCHANGED approveVars

\* bot.forward_message returns: the copy is delivered; mark_message_posted; the
\* handler goes to its asyncio.sleep(0.5).  bot.py:314-322
forward_single_sent ==
    /\ fwd.pc = "send"
    /\ LET channel_id == fwd.post_channels[fwd.i].channel_id
       IN  /\ outbox' = outbox (+) SetToBag({copy_doc(channel_id, fwd.message)})
           /\ posted_messages' = db_mark_message_posted(
                  posted_messages, fwd.message.message_id, channel_id)
           /\ fwd' = [fwd EXCEPT !.pc = "sleep", !.attempted = @ \cup {channel_id}]
    /\ UNCHANGED <<channels, message_mappings, last, budget>>
    /\ UNCHANGED groupVars
    /\ UNCHANGED deleteVars
    /\ UNCHANGED approveVars

\* bot.forward_message raises: logged, and the loop goes on.  bot.py:324-325
forward_single_failed ==
    /\ fwd.pc = "send"
    /\ LET channel_id == fwd.post_channels[fwd.i].channel_id
           f == [fwd EXCEPT !.attempted = @ \cup {channel_id},
                            !.failed = @ \cup {channel_id}]
       IN  /\ posted_messages' = SendFailed(posted_messages,
                                            fwd.message.message_id, channel_id)
           /\ fwd' = Advance(f, posted_messages', fwd.i + 1)
    /\ UNCHANGED <<channels, message_mappings, outbox, last, budget>>
    /\ UNCHANGED groupVars
    /\ UNCHANGED deleteVars
    /\ UNCHANGED approveVars

\* asyncio.sleep(0.5) returns and the loop goes on.  bot.py:322
forward_single_wake ==
    /\ fwd.pc = "sleep"
    /\ fwd' = Advance(fwd, posted_messages, fwd.i + 1)
    /\ UNCHANGED <<channels, posted_messages, message_mappings, outbox, last, budget>>
    /\ UNCHANGED groupVars
    /\ UNCHANGED deleteVars
    /\ UNCHANGED approveVars

\* forward_single_message returns (bot.py:327-328 only logs) and the handler with
\* it: its locals are gone and the next update can be handled.
forward_single_return ==
    /\ fwd.pc = "done"
    /\ fwd' = Idle
    /\ UNCHANGED <<channels, posted_messages, message_mappings, outbox, last, budget>>
    /\ UNCHANGED groupVars
    /\ UNCHANGED deleteVars
    /\ UNCHANGED approveVars

\* The steps of forward_single_message after its first await.
SingleSteps ==
    \/ forward_single_sent
    \/ forward_single_failed
    \/ forward_single_wake
    \/ forward_single_return

SingleRelay ==
    \/ \E message \in SinglePosts : forward_single_begin(message) /\ UNCHANGED last
    \/ SingleSteps

\* ------------------------------------------------------ media groups

\* What a constituent of an album carries.  A message's content is fixed by its
\* id: message 1 has no caption, the others have one; the media kinds alternate.
caption_of(message_id) ==
    IF message_id = 1 THEN ""
    ELSE IF message_id % 2 = 0 THEN "even" ELSE "odd"

kind_of(message_id) ==
    CASE message_id % 4 = 1 -> "photo"
      [] message_id % 4 = 2 -> "video"
      [] message_id % 4 = 3 -> "audio"
      [] OTHER -> "document"

\* The media_group_id of a chat's album: ids are unique across chats.
media_group_id_of(chat) == ToString(100 + chat)

\* update.channel_post for a constituent of an album.
GroupMessage(chat, message_id) ==
    [chat |-> chat, message_id |-> message_id,
     media_group_id |-> media_group_id_of(chat),
     caption |-> caption_of(message_id), kind |-> kind_of(message_id)]

GroupPosts == {GroupMessage(chat, m) : chat \in Chats, m \in MsgIds}

\* The group ids the posts can carry.
GroupIds == {media_group_id_of(chat) : chat \in Chats}

TaskIds == 1..MaxTasks

\* A task slot that holds no task.  A task's locals are media_group_id,
\* post_channels, messages (with attached), media_list and i; the rest is what an
\* observer notes of it: the list as the task found it, the albums it delivered,
\* the channels whose send failed, the channels it skipped, and whether it ended
\* by an exception.
NoTask ==
    [pc |-> "free", media_group_id |-> "", post_channels |-> <<>>,
     attached |-> FALSE, messages |-> <<>>, media_list |-> <<>>, i |-> 0,
     found |-> <<>>, delivered |-> <<>>, failed |-> {}, skipped |-> {},
     raised |-> FALSE]

\* The task delayed_processing as create_task makes it, asleep for 3.0 s.
NewTask(media_group_id, post_channels) ==
    [NoTask EXCEPT !.pc = "timer", !.media_group_id = media_group_id,
                   !.post_channels = post_channels]

\* dict without key k / with key k set to v.
RemoveKey(f, k) == [x \in DOMAIN f \ {k} |-> f[x]]
SetKey(f, k, v) == [x \in DOMAIN f \cup {k} |-> IF x = k THEN v ELSE f[x]]

\* list.sort(key=message_id): a stable insertion sort.
RECURSIVE InsertById(_, _)
InsertById(sorted, msg) ==
    IF sorted = <<>> THEN <<msg>>
    ELSE IF Head(sorted).message_id <= msg.message_id
         THEN <<Head(sorted)>> \o InsertById(Tail(sorted), msg)
         ELSE <<msg>> \o sorted

RECURSIVE SortById(_)
SortById(messages) ==
    IF messages = <<>> THEN <<>>
    ELSE InsertById(SortById(SubSeq(messages, 1, Len(messages) - 1)),
                    messages[Len(messages)])

\* A plausible slip: the list is left in arrival order.
Ordered_unsorted(messages) == messages

\* process_media_group, bot.py:167-168: messages.sort(key=lambda x: x.message_id)
Ordered(messages) == SortById(messages)

\* bot.py:170-178: the caption of the first message that has one (None: "").
FindCaption(messages) ==
    LET with == SelectSeq(messages, LAMBDA msg : msg.caption # "")
    IN  IF with = <<>> THEN "" ELSE Head(with).caption

\* The InputMedia class a message's media is wrapped in, "" when it has none of
\* photo, video, document, audio.
InputMediaType(msg) ==
    CASE msg.kind = "photo" -> "InputMediaPhoto"
      [] msg.kind = "video" -> "InputMediaVideo"
      [] msg.kind = "document" -> "InputMediaDocument"
      [] msg.kind = "audio" -> "InputMediaDocument"
      [] OTHER -> ""

\* A plausible slip: the caption stays on the item of the message that carried it.
ItemCaption_in_place(messages, i, caption) == messages[i].caption

\* bot.py:187 (and 199, 210, 221): `i == 0 and caption`, i counted from 1 here.
ItemCaption(messages, i, caption) == IF i = 1 THEN caption ELSE ""

\* bot.py:180-232: the media list, one InputMedia per message that has media; the
\* file id stands for the message it is the media of.
MediaList(messages) ==
    LET caption == FindCaption(messages)
        item(i) == [type |-> InputMediaType(messages[i]),
                    media |-> [chat |-> messages[i].chat,
                               message_id |-> messages[i].message_id],
                    caption |-> ItemCaption(messages, i, caption)]
        all == [i \in 1..Len(messages) |-> item(i)]
    IN  SelectSeq(all, LAMBDA it : it.type # "")

\* bot.py:257-286: the call that delivers the media list.
SendMethod(media_list) ==
    IF Len(media_list) = 1
    THEN CASE media_list[1].type = "InputMediaPhoto" -> "send_photo"
           [] media_list[1].type = "InputMediaVideo" -> "send_video"
           [] OTHER -> "send_document"
    ELSE "send_media_group"

\* A delivered album, as the platform holds it.
album_doc(to, media_list) ==
    [to |-> to, method |-> SendMethod(media_list), media |-> media_list]

\* process_media_group's `messages`: the list object the task took from
\* media_groups, which is the dict's entry for as long as nothing deleted it.
MessagesOf(mg, t) ==
    IF t.attached THEN mg[t.media_group_id] ELSE t.messages

\* A plausible slip: the check is left out.
AlreadyPosted_unchecked(posted, messages, channel_id) == FALSE

\* bot.py:243-248: whether any message of the group is already posted to the channel.
AlreadyPosted(posted, messages, channel_id) ==
    \E k \in 1..Len(messages) :
        db_is_message_posted(posted, messages[k].message_id, channel_id)

\* bot.py:240-252: the first channel from position `from` on that is not skipped.
NextGroupChannel(posted, messages, post_channels, from) ==
    LET open == {j \in from..Len(post_channels) :
                    ~AlreadyPosted(posted, messages, post_channels[j].channel_id)}
    IN  IF open = {} THEN Len(post_channels) + 1
        ELSE CHOOSE j \in open : \A k \in open : j <= k

\* bot.py:288-290: mark_message_posted for every message of the list.
RECURSIVE MarkAll(_, _, _)
MarkAll(posted, messages, channel_id) ==
    IF messages = <<>> THEN posted
    ELSE MarkAll(db_mark_message_posted(posted, Head(messages).message_id, channel_id),
                 Tail(messages), channel_id)

\* The tasks once the dict's entry for media_group_id is deleted: a task that
\* holds that list keeps it, now apart from the dict.
Detached(ts, mg, media_group_id) ==
    [id \in TaskIds |->
        IF ts[id].attached /\ ts[id].media_group_id = media_group_id
        THEN [ts[id] EXCEPT !.attached = FALSE, !.messages = mg[media_group_id]]
        ELSE ts[id]]

\* A task that has ended: it holds no list any more.
Ended(t) == [t EXCEPT !.pc = "done", !.attached = FALSE, !.messages = <<>>]

\* A plausible slip: only the flag is deleted, the list stays in media_groups.
CleanUp_keeps_list(id, t, mg) ==
    /\ media_groups' = mg
    /\ processing_groups' = processing_groups \ {t.media_group_id}
    /\ tasks' = [tasks EXCEPT ![id] = Ended(t)]

\* A plausible slip: the clean-up deletes the buffer and leaves the flag.
CleanUp_keeps_flag(id, t, mg) ==
    LET gid == t.media_group_id
    IN  IF gid \in DOMAIN mg
        THEN /\ media_groups' = RemoveKey(mg, gid)
             /\ processing_groups' = processing_groups
             /\ tasks' = [Detached(tasks, mg, gid) EXCEPT ![id] = Ended(t)]
        ELSE /\ media_groups' = mg
             /\ processing_groups' = processing_groups
             /\ tasks' = [tasks EXCEPT ![id] = [Ended(t) EXCEPT !.raised = TRUE]]

\* bot.py:300-303: del self.media_groups[id] (a KeyError ends the task when the
\* entry is gone), then the flag is deleted if it is there.
CleanUp(id, t, mg) ==
    LET gid == t.media_group_id
    IN  IF gid \in DOMAIN mg
        THEN /\ media_groups' = RemoveKey(mg, gid)
             /\ processing_groups' = processing_groups \ {gid}
             /\ tasks' = [Detached(tasks, mg, gid) EXCEPT ![id] = Ended(t)]
        ELSE /\ media_groups' = mg
             /\ processing_groups' = processing_groups
             /\ tasks' = [tasks EXCEPT ![id] = [Ended(t) EXCEPT !.raised = TRUE]]

\* A plausible slip: the loop reads the post channels from the registry as it
\* is when the loop runs.
FanOut_rereads(id, t, mg, from) ==
    LET r == [t EXCEPT !.post_channels = db_get_post_channels(channels)]
        j == NextGroupChannel(posted_messages, MessagesOf(mg, r), r.post_channels, from)
        u == [r EXCEPT !.skipped = @ \cup Passed(r.post_channels, from, j), !.i = j]
    IN  IF j <= Len(r.post_channels)
        THEN /\ tasks' = [tasks EXCEPT ![id] = [u EXCEPT !.pc = "send"]]
             /\ media_groups' = mg
             /\ processing_groups' = processing_groups
        ELSE CleanUp(id, u, mg)

\* The loop of bot.py:240 from position `from`, up to its next await: the send to
\* the next channel that is not skipped, or the clean-up after the last channel.
FanOut(id, t, mg, from) ==
    LET j == NextGroupChannel(posted_messages, MessagesOf(mg, t), t.post_channels, from)
        u == [t EXCEPT !.skipped = @ \cup Passed(t.post_channels, from, j), !.i = j]
    IN  IF j <= Len(t.post_channels)
        THEN /\ tasks' = [tasks EXCEPT ![id] = [u EXCEPT !.pc = "send"]]
             /\ media_groups' = mg
             /\ processing_groups' = processing_groups
        ELSE CleanUp(id, u, mg)

\* forward_from_main_channel for a post with a media_group_id, bot.py:332-375.
group_post(message) ==
    /\ fwd.pc = "idle"
    /\ Counted
    /\ LET gid == message.media_group_id
           buffered == IF gid \in DOMAIN media_groups
                       THEN Append(media_groups[gid], message) ELSE <<message>>
       IN  IF ~Accepted(channels, message.chat)
           THEN UNCHANGED <<media_groups, processing_groups, tasks>>
           ELSE /\ media_groups' = SetKey(media_groups, gid, buffered)
                /\ IF gid \notin processing_groups
                   THEN /\ processing_groups' = processing_groups \cup {gid}
                        /\ \E id \in TaskIds :
                              /\ tasks[id].pc = "free"
                              /\ \A other \in 1..(id - 1) : tasks[other].pc # "free"
                              /\ tasks' = [tasks EXCEPT ![id] =
                                     NewTask(gid, db_get_post_channels(channels))]
                   ELSE UNCHANGED <<processing_groups, tasks>>
    /\ UNCHANGED <<channels, posted_messages, message_mappings, fwd, outbox, deletion, platform, albums>>
    /\ UNCHANGED approveVars

\* delayed_processing after its asyncio.sleep(3.0), bot.py:365-370, and
\* process_media_group up to its first await, bot.py:161-286.
timer_fires(id) ==
    /\ tasks[id].pc = "timer"
    /\ LET t == tasks[id]
           gid == t.media_group_id
       IN  IF gid \notin DOMAIN media_groups \/ media_groups[gid] = <<>>
           THEN /\ tasks' = [tasks EXCEPT ![id] = Ended(t)]
                /\ UNCHANGED <<media_groups, processing_groups>>
           ELSE LET messages == Ordered(media_groups[gid])
                    mg == SetKey(media_groups, gid, messages)
                    u == [t EXCEPT !.attached = TRUE, !.media_list = MediaList(messages),
                                   !.found = media_groups[gid]]
                IN  IF u.media_list = <<>>
                    THEN /\ tasks' = [tasks EXCEPT ![id] = Ended(u)]
                         /\ media_groups' = mg
                         /\ UNCHANGED processing_groups
                    ELSE FanOut(id, u, mg, 1)
    /\ UNCHANGED <<channels, posted_messages, message_mappings, fwd, outbox, last, deletion, platform,
                   budget, albums>>
    /\ UNCHANGED approveVars

\* The send returns: the album is delivered, every message of the list is marked
\* posted, and the task goes to its asyncio.sleep(0.5).  bot.py:257-293
group_sent(id) ==
    /\ tasks[id].pc = "send"
    /\ LET t == tasks[id]
           channel_id == t.post_channels[t.i].channel_id
       IN  /\ albums' = albums (+) SetToBag({album_doc(channel_id, t.media_list)})
           /\ posted_messages' = MarkAll(posted_messages, MessagesOf(media_groups, t),
                                         channel_id)
           /\ tasks' = [tasks EXCEPT ![id] =
                  [t EXCEPT !.pc = "pause",
                            !.delivered = Append(@, album_doc(channel_id, t.media_list))]]
    /\ UNCHANGED <<channels, message_mappings, fwd, outbox, last, deletion, platform, budget,
                   media_groups, processing_groups>>
    /\ UNCHANGED approveVars

\* The send raises: logged, and the loop goes on.  bot.py:295-296
group_failed(id) ==
    /\ tasks[id].pc = "send"
    /\ LET t == tasks[id]
           channel_id == t.post_channels[t.i].channel_id
       IN  FanOut(id, [t EXCEPT !.failed = @ \cup {channel_id}], media_groups, t.i + 1)
    /\ UNCHANGED <<channels, posted_messages, message_mappings, fwd, outbox, last, deletion, platform,
                   budget, albums>>
    /\ UNCHANGED approveVars

\* asyncio.sleep(0.5) returns and the loop goes on.  bot.py:293
group_wake(id) ==
    /\ tasks[id].pc = "pause"
    /\ FanOut(id, tasks[id], media_groups, tasks[id].i + 1)
    /\ UNCHANGED <<channels, posted_messages, message_mappings, fwd, outbox, last, deletion, platform,
                   budget, albums>>
    /\ UNCHANGED approveVars

\* The task is over and gone.
task_return(id) ==
    /\ tasks[id].pc = "done"
    /\ tasks' = [tasks EXCEPT ![id] = NoTask]
    /\ UNCHANGED <<channels, posted_messages, message_mappings, fwd, outbox, last, deletion, platform,
                   budget, media_groups, processing_groups, albums>>
    /\ UNCHANGED approveVars

\* A plausible slip: the sweep deletes the buffers and leaves their flags.
cleanup_keeps_flags(old) ==
    /\ old # {}
    /\ old \subseteq DOMAIN media_groups
    /\ \A gid \in old : media_groups[gid] # <<>>
    /\ media_groups' = [gid \in DOMAIN media_groups \ old |-> media_groups[gid]]
    /\ processing_groups' = processing_groups
    /\ tasks' = [id \in TaskIds |->
                    IF tasks[id].attached /\ tasks[id].media_group_id \in old
                    THEN [tasks[id] EXCEPT !.attached = FALSE,
                             !.messages = media_groups[tasks[id].media_group_id]]
                    ELSE tasks[id]]
    /\ UNCHANGED <<channels, posted_messages, message_mappings, fwd, outbox, last, deletion, platform,
                   budget, albums>>
    /\ UNCHANGED approveVars

\* cleanup_old_media_groups, bot.py:635-655, for the groups it finds older than
\* 30 s (by the date of the first message of the list, which the platform set).
cleanup_old_media_groups(old) ==
    /\ old # {}
    /\ old \subseteq DOMAIN media_groups
    /\ \A gid \in old : media_groups[gid] # <<>>
    /\ media_groups' = [gid \in DOMAIN media_groups \ old |-> media_groups[gid]]
    /\ processing_groups' = processing_groups \ old
    /\ tasks' = [id \in TaskIds |->
                    IF tasks[id].attached /\ tasks[id].media_group_id \in old
                    THEN [tasks[id] EXCEPT !.attached = FALSE,
                             !.messages = media_groups[tasks[id].media_group_id]]
                    ELSE tasks[id]]
    /\ UNCHANGED <<channels, posted_messages, message_mappings, fwd, outbox, last, deletion, platform,
                   budget, albums>>
    /\ UNCHANGED approveVars

\* The steps of the settlement tasks and of the sweep.
GroupSteps ==
    \/ \E id \in TaskIds :
          \/ timer_fires(id)
          \/ group_sent(id)
          \/ group_failed(id)
          \/ group_wake(id)
          \/ task_return(id)
    \/ \E old \in SUBSET {media_group_id_of(c) : c \in Chats} :
          cleanup_old_media_groups(old)

GroupRelay ==
    \/ \E message \in GroupPosts : group_post(message) /\ UNCHANGED last
    \/ GroupSteps

\* What an observer notes of a channel post: its kind and its origin, and what
\* Noted notes of a command.
NotedPost(kind, message) == Noted(kind, str(message.chat), "")

\* The channel posts, each noted in `last`.
Intake ==
    \/ \E message \in SinglePosts :
          forward_single_begin(message) /\ last' = NotedPost("single", message)
    \/ \E message \in GroupPosts :
          group_post(message) /\ last' = NotedPost("group", message)

\* ------------------------------------------------------ source deletions

\* A document of message_mappings (forwarded_at is read by the age scan only).
mapping_doc(main_message_id, post_message_id, post_channel_id, main_channel_id) ==
    [main_message_id |-> main_message_id, main_channel_id |-> main_channel_id,
     post_message_id |-> post_message_id, post_channel_id |-> post_channel_id]

\* Database.add_message_mapping: insert_one, the channel ids through str().
db_add_message_mapping(mappings, main_message_id, post_message_id, post_chat, main_chat) ==
    Append(mappings, mapping_doc(main_message_id, post_message_id,
                                 str(post_chat), str(main_chat)))

\* Database.get_message_mappings_by_main: list(find(...))
db_get_message_mappings_by_main(mappings, main_message_id, main_chat) ==
    SelectSeq(mappings, LAMBDA doc : /\ doc.main_message_id = main_message_id
                                     /\ doc.main_channel_id = str(main_chat))

\* A sequence without its k-th element.
Without(seq, k) == [j \in 1..(Len(seq) - 1) |-> IF j < k THEN seq[j] ELSE seq[j + 1]]

\* A plausible slip: the filter looks at post_message_id only.
db_delete_message_mapping_by_id(mappings, post_message_id, post_channel_id) ==
    LET found == {k \in 1..Len(mappings) : mappings[k].post_message_id = post_message_id}
    IN  IF found = {} THEN mappings
        ELSE Without(mappings, CHOOSE k \in found : \A other \in found : k <= other)

\* Database.delete_message_mapping: delete_one, the first document that matches.
db_delete_message_mapping(mappings, post_message_id, post_channel_id) ==
    LET found == {k \in 1..Len(mappings) :
                     /\ mappings[k].post_message_id = post_message_id
                     /\ mappings[k].post_channel_id = post_channel_id}
    IN  IF found = {} THEN mappings
        ELSE Without(mappings, CHOOSE k \in found : \A other \in found : k <= other)

\* The deletion handling at rest.  Its locals are message, mappings and i; the
\* rest is what an observer notes of it: the store as the lookup found it, the
\* mappings whose copy it tried to delete, in order, and those it deleted.
NoDeletion ==
    [pc |-> "idle", message |-> NoMessage, mappings |-> <<>>, i |-> 0,
     store |-> <<>>, attempted |-> <<>>, deleted |-> {}]

\* The source messages a deletion can name.
SourceMessages == [chat : Chats, message_id : MsgIds]

\* A delivery: the platform gives the copy the next message id of the destination
\* chat, and the mapping from the source message to it is recorded.
record(message, post_chat) ==
    /\ Counted
    /\ message.chat # post_chat
    /\ LET post_message_id == platform.next[post_chat]
       IN  /\ platform' = [next |-> [platform.next EXCEPT ![post_chat] = @ + 1],
                           copies |-> platform.copies \cup
                                      {[chat |-> post_chat, message_id |-> post_message_id]}]
           /\ message_mappings' = db_add_message_mapping(message_mappings,
                   message.message_id, post_message_id, post_chat, message.chat)
    /\ UNCHANGED <<channels, posted_messages, fwd, outbox, last, deletion>>
    /\ UNCHANGED groupVars
    /\ UNCHANGED approveVars

\* The handling goes to the next mapping, or ends after the last one.
NextMapping(d) ==
    IF d.i < Len(d.mappings) THEN [d EXCEPT !.pc = "delete", !.i = @ + 1]
    ELSE [d EXCEPT !.pc = "done"]

\* onSourceDeletion: the lookup of the mappings of the deleted message.
onSourceDeletion(message) ==
    /\ fwd.pc = "idle"
    /\ deletion.pc = "idle"
    /\ Counted
    /\ deletion' = NextMapping([NoDeletion EXCEPT
           !.message = message,
           !.store = message_mappings,
           !.mappings = db_get_message_mappings_by_main(message_mappings,
                                                        message.message_id, message.chat)])
    /\ UNCHANGED <<channels, posted_messages, message_mappings, fwd, outbox, last, platform>>
    /\ UNCHANGED groupVars
    /\ UNCHANGED approveVars

\* The copy a mapping document names.
CopyOf(doc) == [chat |-> get_chat(doc.post_channel_id), message_id |-> doc.post_message_id]

\* onSourceDeletion: the platform deletes the copy, the mapping is removed.
copy_deleted ==
    /\ deletion.pc = "delete"
    /\ LET doc == deletion.mappings[deletion.i]
       IN  /\ CopyOf(doc) \in platform.copies
           /\ platform' = [platform EXCEPT !.copies = @ \ {CopyOf(doc)}]
           /\ message_mappings' = db_delete_message_mapping(message_mappings,
                                      doc.post_message_id, doc.post_channel_id)
           /\ deletion' = NextMapping([deletion EXCEPT !.attempted = Append(@, doc),
                                                       !.deleted = @ \cup {doc}])
    /\ UNCHANGED <<channels, posted_messages, fwd, outbox, last, budget>>
    /\ UNCHANGED groupVars
    /\ UNCHANGED approveVars

\* onSourceDeletion: the platform refuses the deletion; logged, and on to the next.
copy_delete_failed ==
    /\ deletion.pc = "delete"
    /\ deletion' = NextMapping([deletion EXCEPT
           !.attempted = Append(@, deletion.mappings[deletion.i])])
    /\ UNCHANGED <<channels, posted_messages, message_mappings, fwd, outbox, last,
                   budget, platform>>
    /\ UNCHANGED groupVars
    /\ UNCHANGED approveVars

\* onSourceDeletion returns.
deletion_return ==
    /\ deletion.pc = "done"
    /\ deletion' = NoDeletion
    /\ UNCHANGED <<channels, posted_messages, message_mappings, fwd, outbox, last,
                   budget, platform>>
    /\ UNCHANGED groupVars
    /\ UNCHANGED approveVars

Deletions ==
    \/ \E message \in SourceMessages, post_chat \in Chats : record(message, post_chat)
    \/ \E message \in SourceMessages : onSourceDeletion(message)
    \/ copy_deleted
    \/ copy_delete_failed
    \/ deletion_return


\* ------------------------------------------------------------- init

\* ------------------------------------------------------ join requests

\* The users whose join request the platform can hold: join_request.user.id.
Users == 1..MaxUsers

\* approve_requests at rest.  Its locals are channel_id, the offset and the list
\* of get_all_pending_requests, pending_requests, i and the two counts; the rest
\* is what an observer notes of it: how the look at the bot's membership ended,
\* the requests that were pending when the command came, the users whose approval
\* was attempted, in order, the count of the final look, and whether the handler
\* ended in its except block after the requests were fetched.
NoApproval ==
    [pc |-> "idle", channel_id |-> "", outcome |-> "", phase |-> "",
     offset |-> 0, all_requests |-> <<>>, pending_requests |-> <<>>, i |-> 0,
     approved_count |-> 0, failed_count |-> 0, remaining |-> 0,
     found |-> <<>>, attempted |-> <<>>, aborted |-> FALSE]

\* A user asks to join a chat: the platform holds the request until it is
\* approved (handle_join_request only logs it, bot.py:517-520).
join_request(chat, user) ==
    /\ Counted
    /\ \A k \in 1..Len(join_requests[chat]) : join_requests[chat][k] # user
    /\ join_requests' = [join_requests EXCEPT ![chat] = Append(@, user)]
    /\ UNCHANGED <<channels, posted_messages, message_mappings, fwd, outbox, last, approval>>
    /\ UNCHANGED groupVars
    /\ UNCHANGED deleteVars

\* approve_requests, bot.py:444-456: the two returns before the requests are
\* fetched, for a bot that is no administrator and for one that cannot invite.
MayApprove(outcome) == outcome = "admin"

\* approve_requests (/approve) up to its call of get_all_pending_requests.
approve_requests(channel_id, outcome) ==
    /\ fwd.pc = "idle"
    /\ deletion.pc = "idle"
    /\ approval.pc = "idle"
    /\ Counted
    /\ LET a == [NoApproval EXCEPT !.channel_id = channel_id, !.outcome = outcome,
                                   !.found = join_requests[get_chat(channel_id)]]
       IN  approval' = IF MayApprove(outcome)
                       THEN [a EXCEPT !.pc = "fetch", !.phase = "first"]
                       ELSE [a EXCEPT !.pc = "done"]
    /\ UNCHANGED <<channels, posted_messages, message_mappings, fwd, outbox, last,
                   join_requests>>
    /\ UNCHANGED groupVars
    /\ UNCHANGED deleteVars

\* get_all_pending_requests has its list: approve_requests goes on with it, at
\* bot.py:459-469 after the first call and at bot.py:494-500 after the second.
Fetched(a, all_requests) ==
    IF a.phase = "recheck"
    THEN [a EXCEPT !.pc = "done", !.remaining = Len(all_requests), !.all_requests = <<>>]
    ELSE IF all_requests = <<>>
         THEN [a EXCEPT !.pc = "done", !.all_requests = <<>>]
         ELSE [a EXCEPT !.pc = "found", !.pending_requests = all_requests,
                        !.all_requests = <<>>, !.offset = 0]

\* get_all_pending_requests, bot.py:387-403: one page of the platform's list.
page_fetched ==
    /\ approval.pc = "fetch"
    /\ LET held == join_requests[get_chat(approval.channel_id)]
           upto == IF approval.offset + PageLimit < Len(held)
                   THEN approval.offset + PageLimit ELSE Len(held)
           page == SubSeq(held, approval.offset + 1, upto)
           all_requests == approval.all_requests \o page
       IN  approval' = IF page = <<>> \/ upto = Len(held)
                       THEN Fetched(approval, all_requests)
                       ELSE [approval EXCEPT !.all_requests = all_requests, !.offset = upto]
    /\ UNCHANGED <<channels, posted_messages, message_mappings, fwd, outbox, last,
                   budget, join_requests>>
    /\ UNCHANGED groupVars
    /\ UNCHANGED deleteVars

\* get_all_pending_requests, bot.py:406-408: the call raises, the list is empty.
page_failed ==
    /\ approval.pc = "fetch"
    /\ approval' = Fetched(approval, <<>>)
    /\ UNCHANGED <<channels, posted_messages, message_mappings, fwd, outbox, last,
                   budget, join_requests>>
    /\ UNCHANGED groupVars
    /\ UNCHANGED deleteVars

\* The status message is edited to "Found ... pending requests", bot.py:468-469,
\* and the loop begins.
found_announced ==
    /\ approval.pc = "found"
    /\ approval' = [approval EXCEPT !.pc = "approve", !.i = 1]
    /\ UNCHANGED <<channels, posted_messages, message_mappings, fwd, outbox, last,
                   budget, join_requests>>
    /\ UNCHANGED groupVars
    /\ UNCHANGED deleteVars

\* An edit of the status message raises, at bot.py:469 or at bot.py:477-479:
\* the handler is in its except block, bot.py:504-515.
status_edit_failed ==
    /\ \/ approval.pc = "found"
       \/ approval.pc = "approve" /\ approval.i % ProgressEvery = 0
    /\ approval' = [approval EXCEPT !.pc = "done", !.aborted = TRUE]
    /\ UNCHANGED <<channels, posted_messages, message_mappings, fwd, outbox, last,
                   budget, join_requests>>
    /\ UNCHANGED groupVars
    /\ UNCHANGED deleteVars

\* approve_single_request returns True, bot.py:412-417, 482-485: the platform
\* has approved the request and holds it no longer.
request_approved ==
    /\ approval.pc = "approve"
    /\ LET chat == get_chat(approval.channel_id)
           user == approval.pending_requests[approval.i]
           Held(u) == u # user
       IN  /\ \E k \in 1..Len(join_requests[chat]) : join_requests[chat][k] = user
           /\ join_requests' = [join_requests EXCEPT ![chat] = SelectSeq(@, Held)]
           /\ approval' = [approval EXCEPT !.pc = "sleep", !.approved_count = @ + 1,
                                           !.attempted = Append(@, user)]
    /\ UNCHANGED <<channels, posted_messages, message_mappings, fwd, outbox, last, budget>>
    /\ UNCHANGED groupVars
    /\ UNCHANGED deleteVars

\* approve_single_request returns False, bot.py:418-420, 486-487.
request_refused ==
    /\ approval.pc = "approve"
    /\ approval' = [approval EXCEPT !.pc = "sleep", !.failed_count = @ + 1,
                       !.attempted = Append(@, approval.pending_requests[approval.i])]
    /\ UNCHANGED <<channels, posted_messages, message_mappings, fwd, outbox, last,
                   budget, join_requests>>
    /\ UNCHANGED groupVars
    /\ UNCHANGED deleteVars

\* After asyncio.sleep(0.5), bot.py:489: the next request, or the final look.
approve_wake ==
    /\ approval.pc = "sleep"
    /\ approval' = IF approval.i < Len(approval.pending_requests)
                   THEN [approval EXCEPT !.pc = "approve", !.i = @ + 1]
                   ELSE [approval EXCEPT !.pc = "fetch", !.phase = "recheck"]
    /\ UNCHANGED <<channels, posted_messages, message_mappings, fwd, outbox, last,
                   budget, join_requests>>
    /\ UNCHANGED groupVars
    /\ UNCHANGED deleteVars

\* approve_requests returns.
approve_return ==
    /\ approval.pc = "done"
    /\ approval' = NoApproval
    /\ UNCHANGED <<channels, posted_messages, message_mappings, fwd, outbox, last,
                   budget, join_requests>>
    /\ UNCHANGED groupVars
    /\ UNCHANGED deleteVars

Approvals ==
    \/ \E chat \in Chats, user \in Users : join_request(chat, user)
    \/ \E channel_id \in ChannelArgs, outcome \in Outcomes :
          approve_requests(channel_id, outcome)
    \/ page_fetched
    \/ page_failed
    \/ found_announced
    \/ status_edit_failed
    \/ request_approved
    \/ request_refused
    \/ approve_wake
    \/ approve_return

\* The registries a sequence of commands can leave in the database: documents
\* with distinct channel ids, at most one of them a main channel.  Nothing in
\* the bot tells one chat id from another but equality, so the registries are
\* taken up to a renaming of the chats: the documents are those of chats 1..n,
\* in this order.
RegistryStates ==
    LET Lists == UNION {[1..n -> {"main", "post"}] : n \in 0..Cardinality(Chats)}
    IN  {[i \in 1..Len(types) |-> channel_data(str(i), types[i])] :
            types \in {ts \in Lists :
                          Cardinality({i \in 1..Len(ts) : ts[i] = "main"}) <= 1}}

\* The bot as constructed, over a database that holds `chs`.
Constructed(chs, updates) ==
    /\ channels = chs
    /\ posted_messages = EmptyBag
    /\ message_mappings = <<>>
    /\ deletion = NoDeletion
    /\ platform = [next |-> [c \in Chats |-> 1], copies |-> {}]
    /\ approval = NoApproval
    /\ join_requests = [c \in Chats |-> <<>>]
    /\ fwd = Idle
    /\ outbox = EmptyBag
    /\ budget = updates
    /\ media_groups = [gid \in {} |-> <<>>]
    /\ processing_groups = {}
    /\ tasks = [id \in TaskIds |-> NoTask]
    /\ albums = EmptyBag
    /\ last = [cmd |-> "", channel_id |-> "", outcome |-> "", main_before |-> "",
               known_before |-> FALSE]

\* A first start, over an empty database.
Init == Constructed(<<>>, MaxEvents + 1)

\* A start over the registry that earlier runs left in the database.
InitRestart == \E chs \in RegistryStates : Constructed(chs, MaxEvents + 1)

\* The same start, of a run with albums.
InitAlbums == \E chs \in RegistryStates : Constructed(chs, MaxEvents)

SpecRegistry == Init /\ [][Command]_vars

NextSingle == Registry \/ SingleRelay

SpecSingle == InitRestart /\ [][NextSingle]_vars

NextGroup == Registry \/ GroupRelay

SpecGroup == InitAlbums /\ [][NextGroup]_vars

SpecDelete == Init /\ [][Deletions]_vars

SpecApprove == Init /\ [][Approvals]_vars

NextGuard == Intake \/ SingleSteps \/ GroupSteps

SpecGuard == InitAlbums /\ [][NextGuard]_vars

\* A constituent of an album that has none of photo, video, document and audio:
\* none of the branches at bot.py:185-226 takes it.
UnsupportedPosts ==
    {[GroupMessage(chat, m) EXCEPT !.kind = "other"] : chat \in Chats, m \in MsgIds}

\* The albums, with constituents of every kind.
NextRelease ==
    \/ GroupRelay
    \/ \E message \in UnsupportedPosts : group_post(message) /\ UNCHANGED last

\* asyncio runs every task that is ready: a timer that has run out fires, a send
\* returns or raises, a sleep ends.  The job queue runs the sweep every 300 s,
\* and a buffer that stays is older than 30 s at a later run.
FairRelease ==
    /\ \A id \in TaskIds :
          /\ WF_vars(timer_fires(id))
          /\ WF_vars(group_sent(id) \/ group_failed(id))
          /\ WF_vars(group_wake(id))
          /\ WF_vars(task_return(id))
    /\ \A gid \in GroupIds :
          WF_vars(\E old \in SUBSET GroupIds : gid \in old /\ cleanup_old_media_groups(old))

SpecRelease == InitAlbums /\ [][NextRelease]_vars /\ FairRelease

\* The commands and the posts together, each noted.
NextRoles == Command \/ Intake \/ SingleSteps \/ GroupSteps

SpecRoles == InitAlbums /\ [][NextRoles]_vars

\* -------------------------------------------------------- properties

\* The documents of the registry that are an active main channel.
Mains == {i \in 1..Len(channels) : IsMain(channels[i])}

\* The last command was a /main that succeeded and found another channel as main.
Replaced ==
    /\ last.cmd = "main"
    /\ last.outcome \in {"admin", "admin_no_invite"}
    /\ last.main_before \notin {"", last.channel_id}

\* C2: whatever /main, /add and /remove commands have been handled, at most one
\* registered active channel has type "main".
C2_SourceUnique == Cardinality(Mains) <= 1

\* C2's case: a /main has just replaced another main channel, which is still
\* registered.
C2_Witness ==
    /\ Replaced
    /\ Len(channels) >= 2
    /\ Cardinality(Mains) = 1

\* C3: after /main A and then /main B (both succeeding, A # B), B is the one
\* main channel and A is still registered, as a post channel.
C3_SourceReplaced ==
    Replaced =>
        /\ Cardinality(Mains) = 1
        /\ db_get_main_channel(channels).channel_id = last.channel_id
        /\ db_get_channel_by_id(channels, last.main_before) # None
        /\ IsPost(db_get_channel_by_id(channels, last.main_before))

\* C3's case: /main 2 handled while channel 1 was the main channel.
C3_Witness ==
    /\ Replaced
    /\ last.main_before = str(1)
    /\ last.channel_id = str(2)

\* The channel ids of the handler's destination list.
Destinations == {fwd.post_channels[j].channel_id : j \in 1..Len(fwd.post_channels)}

\* How many copies of `message` destination d has received.
Copies(d, message) == CopiesIn(copy_doc(d, message), outbox)

\* Destination d has received a post with this message id from another chat.
OtherSource(d, message) ==
    \E c \in Chats \ {message.chat} :
        BagIn(copy_doc(d, [chat |-> c, message_id |-> message.message_id]), outbox)

\* C1: however often the singleton posts of a source are relayed, no destination
\* holds more than one copy of a message; a send is only ever in flight to a
\* destination for which the ledger holds no (message, destination); and when a
\* relay has gone through its destinations with every send succeeding, each
\* destination holds exactly one copy of the message (the ledger knows a message
\* by its id: the count is of the posts of the one source).
C1_RelayIdempotent ==
    /\ \A d \in ChannelArgs, m \in SinglePosts : Copies(d, m) <= 1
    /\ fwd.pc = "send" =>
           ~db_is_message_posted(posted_messages, fwd.message.message_id,
                                 fwd.post_channels[fwd.i].channel_id)
    /\ (fwd.pc = "done" /\ fwd.failed = {}) =>
           \A d \in Destinations :
               ~OtherSource(d, fwd.message) => Copies(d, fwd.message) = 1

\* C1's case: a second relay of a message has finished, and it was skipped for
\* every destination, each of which holds its one copy from the first relay.
C1_Witness ==
    /\ fwd.pc = "done"
    /\ Len(fwd.post_channels) >= 2
    /\ fwd.attempted = {}
    /\ fwd.skipped = Destinations
    /\ \A d \in Destinations : Copies(d, fwd.message) = 1

\* C4: when a singleton relay has gone through its destinations, every one of
\* them was attempted (or skipped because the ledger already held it), also the
\* ones after a failed send; the ledger holds (message, d) for every d but the
\* failed ones, and for none of the failed ones.
C4_PartialFailureIsolated ==
    fwd.pc = "done" =>
        /\ fwd.attempted \cup fwd.skipped = Destinations
        /\ fwd.failed \subseteq fwd.attempted
        /\ \A d \in Destinations :
               db_is_message_posted(posted_messages, fwd.message.message_id, d)
                   <=> d \notin fwd.failed
        /\ \A d \in fwd.attempted \ fwd.failed : Copies(d, fwd.message) >= 1

\* C4's case: a relay in which a send failed and a later destination of the list
\* was still sent to, with success.
C4_Witness ==
    /\ fwd.pc = "done"
    /\ \E i, j \in 1..Len(fwd.post_channels) :
           /\ i < j
           /\ fwd.post_channels[i].channel_id \in fwd.failed
           /\ fwd.post_channels[j].channel_id \in fwd.attempted \ fwd.failed

\* The mapping documents that link `message` to a copy in destination d.
MappingsOf(message, d) ==
    {k \in 1..Len(message_mappings) :
        /\ message_mappings[k].main_message_id = message.message_id
        /\ message_mappings[k].main_channel_id = str(message.chat)
        /\ message_mappings[k].post_channel_id = d}

\* C5: after a singleton post has been relayed with every send succeeding, the
\* store holds, for every destination sent to, exactly one ledger record
\* (message, d) and exactly one mapping from the message to its copy in d.
C5_IdentityTracked ==
    (fwd.pc = "done" /\ fwd.failed = {}) =>
        \A d \in fwd.attempted :
            /\ CopiesIn(posted_doc(fwd.message.message_id, d), posted_messages) = 1
            /\ Cardinality(MappingsOf(fwd.message, d)) = 1

\* The message ids of a list of messages / of a media list.
IdsOf(messages) == [k \in 1..Len(messages) |-> messages[k].message_id]
MediaIds(media_list) == [k \in 1..Len(media_list) |-> media_list[k].media.message_id]

\* ids is in increasing order (an id buffered twice stands next to itself).
Increasing(ids) == \A a, b \in 1..Len(ids) : a < b => ids[a] <= ids[b]

\* How often id x occurs in ids.
Occurrences(ids, x) == Cardinality({k \in 1..Len(ids) : ids[k] = x})

\* ids1 and ids2 hold the same ids, each as often.
SameIds(ids1, ids2) ==
    /\ Len(ids1) = Len(ids2)
    /\ \A x \in MsgIds : Occurrences(ids1, x) = Occurrences(ids2, x)

\* The tasks that have gone into process_media_group and built a media list.
Settling == {id \in TaskIds : tasks[id].media_list # <<>>}

\* C6: whatever order the constituents of a group arrived in, the unit a
\* settlement dispatches lists exactly these constituents in increasing message
\* id order; so does every album a destination has received.
C6_GroupOrdered ==
    /\ \A id \in Settling :
          /\ SameIds(MediaIds(tasks[id].media_list), IdsOf(tasks[id].found))
          /\ Increasing(MediaIds(tasks[id].media_list))
    /\ \A album \in BagToSet(albums) : Increasing(MediaIds(album.media))

\* C6's case: a group whose constituents arrived out of order has been delivered.
C6_Witness ==
    \E id \in Settling :
        /\ Len(tasks[id].found) >= 2
        /\ tasks[id].found[1].message_id > tasks[id].found[2].message_id
        /\ tasks[id].delivered # <<>>

\* The caption a unit is to carry: that of its first constituent, in sequence
\* order, that has one.
CaptionDue(media_list) ==
    LET bearers == {k \in 1..Len(media_list) :
                       caption_of(media_list[k].media.message_id) # ""}
    IN  IF bearers = {} THEN ""
        ELSE caption_of(media_list[CHOOSE k \in bearers :
                                       \A other \in bearers : k <= other].media.message_id)

\* The first item carries the caption due, no other item carries any.
CaptionPlaced(media_list) ==
    /\ media_list[1].caption = CaptionDue(media_list)
    /\ \A k \in 2..Len(media_list) : media_list[k].caption = ""

\* C7: in the unit dispatched for a settled group, and in every album delivered,
\* the caption is the one of the first constituent (in sequence order) that has a
\* caption, it is on the first item and on no other.
C7_CaptionPlaced ==
    /\ \A id \in Settling : CaptionPlaced(tasks[id].media_list)
    /\ \A album \in BagToSet(albums) : CaptionPlaced(album.media)

\* C7's case: a delivered album whose first constituent had no caption and whose
\* first item carries the caption of a later constituent.
C7_Witness ==
    \E album \in BagToSet(albums) :
        /\ Len(album.media) >= 2
        /\ caption_of(album.media[1].media.message_id) = ""
        /\ album.media[1].caption # ""

\* The channel ids of a task's destination list.
TaskDestinations(t) == {t.post_channels[j].channel_id : j \in 1..Len(t.post_channels)}

\* The channels a task has delivered an album to.
DeliveredTo(t) == {t.delivered[k].to : k \in 1..Len(t.delivered)}

\* What a settlement has done so far: one send at most to each destination, each
\* holding all the constituents the task found in the buffer.
OneSendEach(t) ==
    /\ \A a, b \in 1..Len(t.delivered) : t.delivered[a].to = t.delivered[b].to => a = b
    /\ \A k \in 1..Len(t.delivered) :
          /\ t.delivered[k].to \in TaskDestinations(t)
          /\ SameIds(MediaIds(t.delivered[k].media), IdsOf(t.found))
    /\ DeliveredTo(t) \cap (t.failed \cup t.skipped) = {}

\* A settlement that has ended has dealt with every destination.
AllDealtWith(t) ==
    (t.pc = "done" /\ t.media_list # <<>>) =>
        DeliveredTo(t) \cup t.failed \cup t.skipped = TaskDestinations(t)

\* Task id ends its settlement in this step.
Settles(id) ==
    /\ tasks[id].pc \in {"timer", "send", "pause"}
    /\ tasks'[id].pc = "done"
    /\ tasks'[id].media_list # <<>>

\* The timer of task id fires in this step and finds no buffer for its group.
FiresInVain(id) ==
    /\ tasks[id].pc = "timer"
    /\ tasks'[id].pc # "timer"
    /\ tasks[id].media_group_id \notin DOMAIN media_groups

C8_Step ==
    \A id \in TaskIds :
        /\ OneSendEach(tasks'[id])
        /\ AllDealtWith(tasks'[id])
        /\ Settles(id) => tasks[id].media_group_id \notin DOMAIN media_groups'
        /\ FiresInVain(id) =>
              /\ tasks'[id].pc = "done"
              /\ tasks'[id].delivered = <<>>
              /\ UNCHANGED <<media_groups, processing_groups, channels,
                             posted_messages, message_mappings, albums, outbox>>

\* C8: a settlement sends each destination (that it does not skip and whose send
\* does not fail) exactly one album, holding all the k constituents it found in
\* the buffer; when it ends the group has no buffer; and a settlement started for
\* a group id that has no buffer sends nothing and changes nothing.
C8_SettledOnce == [][C8_Step]_vars

\* C8's case: a settlement of two constituents has ended, two destinations hold
\* its album, and the buffer is gone.
C8_Witness ==
    \E id \in TaskIds :
        /\ tasks[id].pc = "done"
        /\ Len(tasks[id].found) = 2
        /\ Len(tasks[id].delivered) = 2
        /\ tasks[id].media_group_id \notin DOMAIN media_groups

\* Some message of the list is recorded in the ledger for channel d.
AnyRecorded(messages, d) ==
    \E k \in 1..Len(messages) :
        CopiesIn(posted_doc(messages[k].message_id, d), posted_messages) > 0

\* Every message of the list has one more ledger record for d after the step,
\* counting a message as often as it is in the list.
AllRecorded(messages, d) ==
    \A x \in MsgIds :
        CopiesIn(posted_doc(x, d), posted_messages') =
            CopiesIn(posted_doc(x, d), posted_messages) + Occurrences(IdsOf(messages), x)

\* The list task id works on in this step: the buffer of its group when its timer
\* fires, its messages after that.
ListOf(id) ==
    LET t == tasks[id]
    IN  IF t.pc # "timer" THEN MessagesOf(media_groups, t)
        ELSE IF t.media_group_id \in DOMAIN media_groups
             THEN media_groups[t.media_group_id] ELSE <<>>

\* The task goes to the send for a channel in this step.
StartsSend(id) ==
    /\ tasks'[id].pc = "send"
    /\ tasks[id].pc = "send" => tasks[id].i # tasks'[id].i

C9_Step ==
    \A id \in TaskIds :
        LET t == tasks[id]
            u == tasks'[id]
        IN  /\ \A d \in u.skipped \ t.skipped :
                  /\ AnyRecorded(ListOf(id), d)
                  /\ UNCHANGED <<posted_messages, albums>>
            /\ u.skipped \cap DeliveredTo(u) = {}
            /\ StartsSend(id) =>
                  ~AnyRecorded(ListOf(id), u.post_channels[u.i].channel_id)
            /\ Len(u.delivered) > Len(t.delivered) =>
                  LET album == u.delivered[Len(u.delivered)]
                  IN  /\ album.media = t.media_list
                      /\ albums' = albums (+) SetToBag({album})
                      /\ AllRecorded(ListOf(id), album.to)

MappingsOfSource(store, message) ==
    {k \in 1..Len(store) : /\ store[k].main_message_id = message.message_id
                           /\ store[k].main_channel_id = str(message.chat)}

\* The documents the store holds now.
Stored == {message_mappings[k] : k \in 1..Len(message_mappings)}

C11_LedgerUnique ==
    \A doc \in BagToSet(posted_messages) : CopiesIn(doc, posted_messages) <= 1

\* Message id m was part of a send that destination d received: as a forwarded
\* copy, or as an item of an album.
DeliveredIn(m, d) ==
    \/ \E copy \in BagToSet(outbox) : copy.to = d /\ copy.message_id = m
    \/ \E album \in BagToSet(albums) :
          album.to = d /\ \E k \in 1..Len(album.media) : album.media[k].media.message_id = m

\* C12: every ledger record (m, d) stands for a copy of m that was part of a
\* successful send to d, whatever arrives while a settlement is running.
C12_RecordedMeansDelivered ==
    \A doc \in BagToSet(posted_messages) : DeliveredIn(doc.message_id, doc.channel_id)

\* The tasks of group id gid whose timer has not fired yet.
Pending(gid) == {id \in TaskIds : tasks[id].pc = "timer" /\ tasks[id].media_group_id = gid}

\* C13: at any time at most one settlement task is pending for a group id.
C13_OneTimer == \A gid \in GroupIds : Cardinality(Pending(gid)) <= 1

\* The tasks that are in the fan-out of a settlement of group id gid.
Acting(gid) ==
    {id \in TaskIds : tasks[id].pc \in {"send", "pause"} /\ tasks[id].media_group_id = gid}

\* C14: at most one settlement is acting on a group id at a time.
C14_OneSettlement == \A gid \in GroupIds : Cardinality(Acting(gid)) <= 1

\* An album with a constituent of group id gid has been delivered.
Dispatched(gid) ==
    \E album \in BagToSet(albums) :
        \E k \in 1..Len(album.media) : media_group_id_of(album.media[k].media.chat) = gid

C15_Step ==
    \A gid \in GroupIds :
        (gid \notin DOMAIN media_groups /\ Dispatched(gid)) =>
            /\ gid \notin DOMAIN media_groups'
            /\ \A id \in TaskIds :
                  (tasks'[id].pc = "timer" /\ tasks'[id].media_group_id = gid) =>
                      tasks[id] = tasks'[id]

\* C15: once the buffer of a group id has been dispatched and discarded, a
\* constituent that arrives for this group id makes no new buffer and no new
\* settlement task.
C15_LateDropped == [][C15_Step]_vars

\* Task id ends a settlement of group id gid in this step.
EndsSettlement(id, gid) ==
    /\ tasks[id].media_group_id = gid
    /\ tasks[id].pc \in {"timer", "send", "pause"}
    /\ tasks'[id].pc = "done"

\* After the step, a settlement holds a unit with all the constituents that the
\* buffer of gid held before it.
Flushed(gid) ==
    \E id \in TaskIds :
        /\ tasks'[id].media_group_id = gid
        /\ tasks'[id].media_list # <<>>
        /\ SameIds(MediaIds(tasks'[id].media_list), IdsOf(media_groups[gid]))

C16_Step ==
    \A gid \in DOMAIN media_groups :
        (/\ gid \notin DOMAIN media_groups'
         /\ \A id \in TaskIds : ~tasks[id].attached \/ tasks[id].media_group_id # gid
         /\ \A id \in TaskIds : ~EndsSettlement(id, gid))
            => Flushed(gid)

\* C16: when the sweep discards the buffer of a group that no settlement has
\* started on, the constituents collected so far are dispatched first.
C16_SweepFlushes == [][C16_Step]_vars

\* The registry gives a post from channel_id nothing to do: it has no main
\* channel, or another one, or no post channel.
NothingToRelay(channel_id) ==
    \/ \A k \in 1..Len(channels) : ~(channels[k].type = "main" /\ channels[k].is_active)
    \/ \E k \in 1..Len(channels) :
          /\ channels[k].type = "main" /\ channels[k].is_active
          /\ \A j \in 1..(k - 1) : ~(channels[j].type = "main" /\ channels[j].is_active)
          /\ channels[k].channel_id # channel_id
    \/ \A k \in 1..Len(channels) : ~(channels[k].type = "post" /\ channels[k].is_active)

\* A channel post is taken in by this step.
PostTaken == budget' # budget /\ last'.cmd \in {"single", "group"}

C17_Step ==
    (PostTaken /\ NothingToRelay(last'.channel_id)) =>
        /\ UNCHANGED <<channels, posted_messages, message_mappings, outbox, albums,
                       media_groups, processing_groups, tasks>>
        /\ fwd'.pc \in {"idle", "done"}
        /\ fwd'.post_channels = <<>>
        /\ fwd'.attempted = {}

\* C17: a channel post, singleton or constituent of a group, that arrives when
\* no main channel is registered, or from a channel that is not the main channel,
\* or when there is no post channel, has no effect: no send, no ledger write, no
\* buffer entry, no task scheduled.
C17_RelayGuard == [][C17_Step]_vars

\* C17's case: the last update was a constituent of a group posted in a channel
\* that is not the main channel, while a main channel and a post channel are
\* registered; nothing is buffered and nothing is scheduled.
C17_Witness ==
    /\ last.cmd = "group"
    /\ Mains # {}
    /\ \A k \in Mains : channels[k].channel_id # last.channel_id
    /\ \E k \in 1..Len(channels) : IsPost(channels[k])
    /\ media_groups = <<>>
    /\ \A id \in TaskIds : tasks[id].pc = "free"

\* A command is handled by this step.
CommandTaken(cmds) == budget' # budget /\ last'.cmd \in cmds

C18_Step ==
    (CommandTaken({"add", "main"}) /\ last'.outcome \in {"not_admin", "lookup_failed"}) =>
        channels' = channels

\* C18: /main or /add for a channel in which the bot is not an administrator, or
\* whose lookup fails, leaves the registry exactly as it was: the main channel is
\* not demoted and no document is written.
C18_NotAdminUnchanged == [][C18_Step]_vars

\* C18's case: /main for an unregistered channel in which the bot is not an
\* administrator was refused while another main channel is registered, and that
\* one is still the main channel.
C18_Witness ==
    /\ last.cmd = "main"
    /\ last.outcome = "not_admin"
    /\ last.main_before # ""
    /\ last.main_before # last.channel_id
    /\ ~last.known_before
    /\ \E k \in Mains : channels[k].channel_id = last.main_before
    /\ \A k \in 1..Len(channels) : channels[k].channel_id # last.channel_id

\* The registry without the documents of channel_id.
Others(chs, channel_id) ==
    LET Other(doc) == doc.channel_id # channel_id
    IN  SelectSeq(chs, Other)

C19_Step ==
    (CommandTaken({"remove"}) /\ last'.outcome = "admin") =>
        IF \A k \in 1..Len(channels) : channels[k].channel_id # last'.channel_id
        THEN channels' = channels
        ELSE /\ Len(channels') = Len(channels) - 1
             /\ channels' = Others(channels, last'.channel_id)

\* C19: /remove of a channel that is not registered leaves the registry as it
\* was; /remove of a registered channel deletes the document of this channel and
\* no other, so that the channel is neither main channel nor post channel
\* afterwards.
C19_Remove == [][C19_Step]_vars

\* C19's case: the main channel has been removed while a post channel was
\* registered; no main channel is left, the post channel is.
C19_Witness ==
    /\ last.cmd = "remove"
    /\ last.outcome = "admin"
    /\ last.known_before
    /\ last.main_before = last.channel_id
    /\ Mains = {}
    /\ \E k \in 1..Len(channels) : IsPost(channels[k])
    /\ \A k \in 1..Len(channels) : channels[k].channel_id # last.channel_id

\* The bot is an administrator without the right to invite users, and requests
\* were pending when /approve came.
MissingInvite(a) == a.outcome = "admin_no_invite" /\ a.found # <<>>

\* C20: /approve for a channel in which the bot is an administrator without the
\* right to invite users still attempts the approval of the pending requests.
C20_ApproveProceeds ==
    (approval.pc = "done" /\ MissingInvite(approval)) => approval.attempted # <<>>

C20_AddStep ==
    (CommandTaken({"add"}) /\ last'.outcome = "admin_no_invite") =>
        \E k \in 1..Len(channels') :
            channels'[k] = [channel_id |-> last'.channel_id, type |-> "post",
                            is_active |-> TRUE]

\* The other half of C20: /add for a channel in which the bot is an
\* administrator without the right to invite users writes the document.
C20_AddPersists == [][C20_AddStep]_vars

\* seq1 is the beginning of seq2.
Prefix(seq1, seq2) == Len(seq1) <= Len(seq2) /\ seq1 = SubSeq(seq2, 1, Len(seq1))

\* C21: once /approve has accumulated the pending requests, the approvals it
\* attempts are those of the accumulated requests, one each and in their order;
\* and when the command has ended, the approval of every accumulated request has
\* been attempted, a refused one among them or not, and approved_count +
\* failed_count is the number of accumulated requests.
C21_BulkApproval ==
    /\ Prefix(approval.attempted, approval.pending_requests)
    /\ approval.approved_count + approval.failed_count = Len(approval.attempted)
    /\ approval.pc = "done" => approval.attempted = approval.pending_requests

\* The active post channel documents of the registry, in collection order.
ActivePosts ==
    LET Active(doc) == doc.type = "post" /\ doc.is_active
    IN  SelectSeq(channels, Active)

C22_Step ==
    \A id \in TaskIds :
        LET t == tasks[id]
            u == tasks'[id]
        IN  /\ (t.pc = "free" /\ u.pc # "free") => u.post_channels = ActivePosts
            /\ (t.pc # "free" /\ u.pc # "free") => u.post_channels = t.post_channels
            /\ Len(u.delivered) > Len(t.delivered) =>
                  u.delivered[Len(u.delivered)].to \in TaskDestinations(t)
            /\ (u.pc = "done" /\ u.media_list # <<>>) =>
                  DeliveredTo(u) \cup u.failed \cup u.skipped = TaskDestinations(u)

\* C22: the channels a group is fanned out to are the active post channels read
\* when the first constituent arrived and the task was made; commands handled
\* before the timer fires or during the fan-out do not change them.
C22_DestinationSnapshot == [][C22_Step]_vars

\* C22's case: a settlement has delivered its album to a channel that was
\* removed from the registry after the first constituent arrived.
C22_Witness ==
    \E id \in TaskIds :
        /\ tasks[id].pc = "done"
        /\ \E d \in DeliveredTo(tasks[id]) :
              \A k \in 1..Len(channels) : channels[k].channel_id # d

\* C23: a destination is passed over by the relay of a singleton post only when
\* it already holds a copy of that very post, the message of that source chat;
\* in particular a post of a new source is not passed over because a post of the
\* former source had the same message id.
C23_NoSuppression ==
    \A d \in fwd.skipped : Copies(d, fwd.message) >= 1

\* Every registered channel has one document, of type "main" or "post".
OneRole ==
    \A i, j \in 1..Len(channels) :
        /\ channels[i].type \in {"main", "post"}
        /\ channels[i].channel_id = channels[j].channel_id => i = j

\* The types of the documents of channel_id.
Roles(chs, channel_id) ==
    {chs[k].type : k \in {i \in 1..Len(chs) : chs[i].channel_id = channel_id}}

C24_Step ==
    /\ (/\ CommandTaken({"add"})
        /\ last'.outcome \in {"admin", "admin_no_invite"}
        /\ last'.main_before = last'.channel_id) =>
           /\ Mains' = {}
           /\ Roles(channels', last'.channel_id) = {"post"}
    /\ (Mains = {} /\ PostTaken) =>
           /\ UNCHANGED <<channels, posted_messages, message_mappings, outbox, albums,
                          media_groups, processing_groups, tasks>>
           /\ fwd'.post_channels = <<>>
           /\ fwd'.attempted = {}
    /\ (Mains = {} /\ Mains' # {}) =>
           /\ CommandTaken({"main"})
           /\ last'.outcome \in {"admin", "admin_no_invite"}
    /\ OneRole'

\* C24: /add of the channel that is the main channel makes it a post channel and
\* leaves no main channel; while there is none every channel post is ignored,
\* and only a /main that succeeds brings one back; at every moment each
\* registered channel has exactly one role.
C24_AddDemotesSource == [][C24_Step]_vars

\* C24's case: the last command was a successful /add of the main channel.
C24_Witness ==
    /\ last.cmd = "add"
    /\ last.outcome \in {"admin", "admin_no_invite"}
    /\ last.main_before = last.channel_id
    /\ Mains = {}
    /\ Roles(channels, last.channel_id) = {"post"}

\* A post arrived after that and was ignored.
C24_PostIgnored ==
    /\ last.cmd \in {"single", "group"}
    /\ Mains = {}
    /\ budget = 0
    /\ Roles(channels, last.channel_id) = {"post"}
    /\ fwd.post_channels = <<>>
    /\ outbox = EmptyBag

C25_Step ==
    \A gid \in DOMAIN media_groups :
        \A id \in TaskIds :
            (EndsSettlement(id, gid) /\ gid \notin DOMAIN media_groups') =>
                SameIds(MediaIds(tasks'[id].media_list), IdsOf(media_groups[gid]))

\* C25: when a settlement discards the buffer of its group, every constituent
\* the buffer holds is an item of the unit the settlement sent, also the ones
\* that arrived while the fan-out was running.
C25_NoConstituentLost == [][C25_Step]_vars

\* C26: a group id has a flag in processing_groups exactly when media_groups
\* holds a non-empty buffer for it, whatever arrivals, settlements and sweeps
\* have run.
C26_FlagIffBuffer ==
    \A gid \in GroupIds :
        gid \in processing_groups <=>
            (gid \in DOMAIN media_groups /\ media_groups[gid] # <<>>)
\* C26's case: the sweep removed the buffer of a group whose fan-out was running,
\* and a constituent that arrived after that has made a new buffer and flag.
C26_Witness ==
    \E id \in TaskIds :
        /\ tasks[id].pc \in {"send", "pause"}
        /\ ~tasks[id].attached
        /\ tasks[id].media_group_id \in processing_groups
        /\ tasks[id].media_group_id \in DOMAIN media_groups

\* The tasks whose fan-out is running on the buffer that media_groups holds for gid.
FanningOut(gid) == {id \in Acting(gid) : tasks[id].attached}

C27_Step ==
    \A gid \in DOMAIN media_groups :
        gid \notin DOMAIN media_groups' =>
            IF \E id \in TaskIds : EndsSettlement(id, gid)
            THEN \A id \in TaskIds :
                    EndsSettlement(id, gid) => (tasks[id].pc = "timer" \/ tasks[id].attached)
            ELSE FanningOut(gid) = {}

\* C27: a buffer is removed by the settlement that took it up, or by the sweep
\* when no fan-out is running on it: the sweep removes no buffer in fan-out, and
\* a settlement removes no buffer that was made after it started.
C27_OwnBufferOnly == [][C27_Step]_vars

\* Group id gid has a buffer or a flag.
Held(gid) == gid \in DOMAIN media_groups \/ gid \in processing_groups

\* C28: with the timers, the sends and the sweep running, a group id that has a
\* buffer or a flag is later without both, also when the settlement found no
\* valid media in the buffer and returned without cleaning up.
C28_Released == \A gid \in GroupIds : Held(gid) ~> ~Held(gid)

\* C28's case: a settlement found no valid media and returned, and the buffer
\* and the flag of its group are gone.
C28_Witness ==
    \E id \in TaskIds :
        /\ tasks[id].pc = "done"
        /\ tasks[id].found # <<>>
        /\ tasks[id].media_list = <<>>
        /\ ~Held(tasks[id].media_group_id)

====
